---- MODULE Spec2Model ----
(***************************************************************************)
(* State-machine model of fars_cleaner.datasets.FARSFetcher: the registry  *)
(* loader, the hash verifier, the downloader, the archive extractor and    *)
(* the fetch operations that compose them over the cache directory.        *)
(*                                                                         *)
(* Strings (filenames, hashes, manifest lines) are sequences of one-       *)
(* character strings, so that formatting, slicing, substring search and    *)
(* whitespace splitting are computed as the code computes them.            *)
(* A file's bytes are abstracted to a content id (a natural number); the   *)
(* SHA-256 digest is an injective map from content ids to hex strings.     *)
(***************************************************************************)
EXTENDS Integers, Sequences, FiniteSets, TLC

VARIABLES
    registry,       \* self.registry: the manifest, as the sequence of its lines
    constructed,    \* TRUE once __init__ has run
    registry_dict,  \* self.registry_dict: insertion-ordered filename -> (hash, url)
    check_hash,     \* self.check_hash
    show_progress,  \* self.show_progress
    cache,          \* the directory self.cache_path: name -> file or directory
    running,        \* the _get_file calls in progress at once, step by step
    last            \* the most recent call: operation, arguments, stages, result

vars == <<registry, constructed, registry_dict, check_hash, show_progress, cache,
          running, last>>

(***************************************************************************)
(* Bounds of the model.                                                    *)
(***************************************************************************)
MaxContent == 3     \* file contents are the ids 0..MaxContent
MaxYear == 10       \* years passed to fetch_single / fetch_subset
MaxFields == 4      \* fields per generated manifest line (registry loading)
MaxLines == 3       \* lines per generated manifest (registry loading)
MaxChunks == 2      \* chunks read from a response body (concurrent calls)

Contents == 0..MaxContent
Years == (MaxYear - 1)..MaxYear

(***************************************************************************)
(* Strings.                                                                *)
(***************************************************************************)
Digits == <<"0", "1", "2", "3", "4", "5", "6", "7", "8", "9">>

RECURSIVE Str(_)
Str(n) ==
    IF n < 10 THEN <<Digits[n + 1]>>
    ELSE Str(n \div 10) \o <<Digits[(n % 10) + 1]>>

IsSpace(ch) == ch \in {" ", "\t", "\n"}

RECURSIVE LStrip(_)
LStrip(s) ==
    IF s = <<>> THEN s
    ELSE IF IsSpace(Head(s)) THEN LStrip(Tail(s)) ELSE s

RECURSIVE RStrip(_)
RStrip(s) ==
    IF s = <<>> THEN s
    ELSE IF IsSpace(s[Len(s)]) THEN RStrip(SubSeq(s, 1, Len(s) - 1)) ELSE s

Strip(s) == RStrip(LStrip(s))

RECURSIVE SplitAcc(_, _, _)
SplitAcc(s, cur, acc) ==
    IF s = <<>> THEN (IF cur = <<>> THEN acc ELSE Append(acc, cur))
    ELSE IF IsSpace(Head(s))
         THEN SplitAcc(Tail(s), <<>>, IF cur = <<>> THEN acc ELSE Append(acc, cur))
         ELSE SplitAcc(Tail(s), Append(cur, Head(s)), acc)

\* str.split() with no argument: the maximal runs of non-whitespace characters.
Split(s) == SplitAcc(s, <<>>, <<>>)

\* `sub in s` for strings.
Contains(s, sub) ==
    \E i \in 1..(Len(s) - Len(sub) + 1) : SubSeq(s, i, i + Len(sub) - 1) = sub

\* s[:-4]
DropLast4(s) == IF Len(s) <= 4 THEN <<>> ELSE SubSeq(s, 1, Len(s) - 4)

DotZip == <<".", "z", "i", "p">>
DotUnzip == <<".", "u", "n", "z", "i", "p">>
DictWord == <<"d", "i", "c", "t">>
MappingName == <<"m", "a", "p", "p", "i", "n", "g", ".", "d", "i", "c", "t">>

\* f'{year}.zip'
YearFile(year) == Str(year) \o DotZip

\* hashlib.sha256(...).hexdigest() of the content with id c.
HexDigest(c) == <<"h">> \o Str(c)

(***************************************************************************)
(* Registry loader (_load_registry).  The dict keeps insertion order; it   *)
(* is a sequence of entries with pairwise distinct filenames.              *)
(***************************************************************************)
Keys(d) == {d[i].filename : i \in 1..Len(d)}

InRegistry(d, filename) == filename \in Keys(d)

Lookup(d, filename) == d[CHOOSE i \in 1..Len(d) : d[i].filename = filename]

\* Variant: a key already present keeps its first value.
DictSetFirstWins(d, filename, file_hash, url) ==
    IF filename \in Keys(d) THEN d
    ELSE Append(d, [filename |-> filename, hash |-> file_hash, url |-> url])

\* registry_dict[filename] = (file_hash, url)
DictSet(d, filename, file_hash, url) ==
    LET e == [filename |-> filename, hash |-> file_hash, url |-> url]
    IN  IF filename \in Keys(d)
        THEN [i \in 1..Len(d) |-> IF d[i].filename = filename THEN e ELSE d[i]]
        ELSE Append(d, e)

\* len(parts) >= 3
WellFormed(parts) == Len(parts) >= 3

RECURSIVE LoadLines(_, _)
LoadLines(lines, d) ==
    IF lines = <<>> THEN d
    ELSE LET line == Head(lines)
             parts == Split(Strip(line))
         IN  LoadLines(Tail(lines),
                 IF Strip(line) # <<>> /\ WellFormed(parts)
                 THEN DictSet(d, parts[1], parts[2], parts[3])
                 ELSE d)

LoadRegistry(lines) == LoadLines(lines, <<>>)

(***************************************************************************)
(* The cache directory.  An entry is a regular file with a content id, or  *)
(* a directory holding a set of extracted member files.                    *)
(***************************************************************************)
EmptyContent == 0   \* the content of a file just opened with mode 'wb'

FileEntry(c) == [kind |-> "file", content |-> c, files |-> {}]
DirEntry(S) == [kind |-> "dir", content |-> EmptyContent, files |-> S]

Exists(fs, p) == p \in DOMAIN fs

Write(fs, p, e) == [n \in DOMAIN fs \cup {p} |-> IF n = p THEN e ELSE fs[n]]

\* self.cache_path / filename: paths are kept relative to the cache root.
CachePath(filename) == filename

\* Archives: the odd content ids are well-formed zip files; the archive with
\* id c holds the members 1..(c+1)/2, so a later version of an archive can
\* hold more members than an earlier one.
IsZip(c) == c % 2 = 1
Members(c) == 1..((c + 1) \div 2)

(***************************************************************************)
(* Hash verifier (_verify_hash).                                           *)
(***************************************************************************)
VerifyHash(fs, file_path, expected_hash) ==
    HexDigest(fs[file_path].content) = expected_hash

(***************************************************************************)
(* Downloader (_download_file).  The response is the input `out`: a        *)
(* network error on the request, or a status with a body, whose streaming  *)
(* may be cut by a read error.                                             *)
(***************************************************************************)
StatusOK == 200
Statuses == {StatusOK, 204, 404}

NoOut == [net |-> FALSE, status |-> 0, body |-> EmptyContent, cut |-> FALSE]
NetErr == [net |-> TRUE, status |-> 0, body |-> EmptyContent, cut |-> FALSE]
Http(s, c) == [net |-> FALSE, status |-> s, body |-> c, cut |-> FALSE]
CutOff(c) == [net |-> FALSE, status |-> StatusOK, body |-> c, cut |-> TRUE]

Outcomes ==
    {NetErr} \cup {Http(s, EmptyContent) : s \in Statuses \ {StatusOK}}
             \cup {Http(StatusOK, c) : c \in Contents}
             \cup {CutOff(MaxContent)}

\* Variant: every success status is accepted.
StatusAccepted2xx(status) == status \in 200..299

\* response.status != 200 raises
StatusAccepted(status) == status = StatusOK

\* Variant: the body is streamed to a temporary file that replaces the
\* target only when the stream is complete.
DownloadFileAtomic(fs, target_path, out) ==
    IF out.net
    THEN [fs |-> fs, ok |-> FALSE, err |-> "NetworkError"]
    ELSE IF out.status # StatusOK
    THEN [fs |-> fs, ok |-> FALSE, err |-> "HTTPError"]
    ELSE IF out.cut
    THEN [fs |-> fs, ok |-> FALSE, err |-> "ReadError"]
    ELSE [fs |-> Write(fs, target_path, FileEntry(out.body)),
          ok |-> TRUE, err |-> "none"]

DownloadFile(fs, target_path, out) ==
    IF out.net
    THEN [fs |-> fs, ok |-> FALSE, err |-> "NetworkError"]
    ELSE IF ~StatusAccepted(out.status)
    THEN [fs |-> fs, ok |-> FALSE, err |-> "HTTPError"]
    ELSE IF out.cut
    \* open(target_path, 'wb') has truncated the file; the stream broke
    \* before the body was complete.
    THEN [fs |-> Write(fs, target_path, FileEntry(EmptyContent)),
          ok |-> FALSE, err |-> "ReadError"]
    ELSE [fs |-> Write(fs, target_path, FileEntry(out.body)),
          ok |-> TRUE, err |-> "none"]

(***************************************************************************)
(* Archive extractor (_extract_zip).                                       *)
(***************************************************************************)
\* for member in tqdm(members): zip_ref.extract(member, extract_path)
RECURSIVE ExtractEach(_, _)
ExtractEach(files, members) ==
    IF members = {} THEN files
    ELSE LET member == CHOOSE m \in members : \A n \in members : m <= n
         IN  ExtractEach(files \cup {member}, members \ {member})

\* zip_ref.extractall(extract_path)
ExtractAll(files, members) == files \cup members

\* if self.show_progress: ... else: ...
Unpack(files, members) ==
    IF show_progress THEN ExtractEach(files, members) ELSE ExtractAll(files, members)

\* Variant: the returned list names the members of the archive only.
ExtractZipReportsMembers(fs, zip_path, extract_dir) ==
    LET old == IF Exists(fs, extract_dir) THEN fs[extract_dir].files ELSE {}
        made == Write(fs, extract_dir, DirEntry(old))
    IN  IF fs[zip_path].kind # "file" \/ ~IsZip(fs[zip_path].content)
        THEN [fs |-> made, ok |-> FALSE, err |-> "BadZipFile", files |-> {}]
        ELSE [fs |-> Write(fs, extract_dir,
                           DirEntry(Unpack(old, Members(fs[zip_path].content)))),
              ok |-> TRUE, err |-> "none",
              files |-> {<<extract_dir, m>> : m \in Members(fs[zip_path].content)}]

\* Variant: the extraction directory is emptied before the archive is
\* unpacked.
ExtractZipFresh(fs, zip_path, extract_dir) ==
    LET made == Write(fs, extract_dir, DirEntry({}))
    IN  IF fs[zip_path].kind # "file" \/ ~IsZip(fs[zip_path].content)
        THEN [fs |-> made, ok |-> FALSE, err |-> "BadZipFile", files |-> {}]
        ELSE [fs |-> Write(fs, extract_dir,
                           DirEntry(Unpack({}, Members(fs[zip_path].content)))),
              ok |-> TRUE, err |-> "none",
              files |-> {<<extract_dir, m>> : m \in Members(fs[zip_path].content)}]

ExtractZip(fs, zip_path, extract_dir) ==
    LET old == IF Exists(fs, extract_dir) THEN fs[extract_dir].files ELSE {}
        made == Write(fs, extract_dir, DirEntry(old))      \* mkdir(exist_ok=True)
    IN  IF fs[zip_path].kind # "file" \/ ~IsZip(fs[zip_path].content)
        THEN [fs |-> made, ok |-> FALSE, err |-> "BadZipFile", files |-> {}]
        ELSE LET now == Unpack(old, Members(fs[zip_path].content))
             IN  [fs |-> Write(fs, extract_dir, DirEntry(now)),
                  ok |-> TRUE, err |-> "none",
                  \* os.walk(extract_path): every file now in the directory
                  files |-> {<<extract_dir, m>> : m \in now}]

(***************************************************************************)
(* Results and stage events.  Every operation yields the cache it leaves,  *)
(* whether it returned or raised, the exception, the returned path or      *)
(* mapping, and the stages it performed in order.                          *)
(***************************************************************************)
Result(fs, ok, err, path, ret, ev) ==
    [fs |-> fs, ok |-> ok, err |-> err, path |-> path, ret |-> ret, ev |-> ev]

Ev(stage, key, ok, out, dir) ==
    [stage |-> stage, key |-> key, ok |-> ok, out |-> out, dir |-> dir]

VerifyEv(fs, filename, file_hash) ==
    Ev("verify", filename, VerifyHash(fs, CachePath(filename), file_hash), NoOut, <<>>)

(***************************************************************************)
(* _get_file.                                                              *)
(***************************************************************************)
\* Variant: the dictionary lookup raises for the absent key.
UnknownResourceAsKeyError == "KeyError"

\* raise FileNotFoundError(...)
UnknownResource == "FileNotFoundError"

\* Variant: download_needed is never cleared.
DownloadNeededAlways(fs, file_path, check, file_hash) == TRUE

\* Variant: an existing file is never downloaded again.
DownloadNeededIfAbsent(fs, file_path, check, file_hash) ==
    ~Exists(fs, file_path)

\* Variant: an existing file is kept when the hash is not checked.
DownloadNeededUnlessExists(fs, file_path, check, file_hash) ==
    ~(Exists(fs, file_path) /\ (~check \/ VerifyHash(fs, file_path, file_hash)))

\* download_needed, after the check of an existing file
DownloadNeeded(fs, file_path, check, file_hash) ==
    ~(Exists(fs, file_path) /\ check /\ VerifyHash(fs, file_path, file_hash))

\* Variant: no verification after the download.
MismatchRaisesNever(fs, file_path, check, file_hash) == FALSE

\* self.check_hash and not self._verify_hash(file_path, file_hash)
MismatchRaises(fs, file_path, check, file_hash) ==
    check /\ ~VerifyHash(fs, file_path, file_hash)

\* Variant: an existing file is verified whether or not the hash is checked.
PreVerifyAlways(fs, check, filename, file_hash) ==
    IF Exists(fs, CachePath(filename))
    THEN <<VerifyEv(fs, filename, file_hash)>>
    ELSE <<>>

\* The events of the check of an existing file.
PreVerify(fs, check, filename, file_hash) ==
    IF Exists(fs, CachePath(filename)) /\ check
    THEN <<VerifyEv(fs, filename, file_hash)>>
    ELSE <<>>

\* Variant: a mismatch after the download is answered by a second download.
DownloadedRetries(d, check, filename, file_hash, out, ev) ==
    LET ev2 == Append(ev, Ev("download", filename, d.ok, out, <<>>))
        ev3 == Append(ev2, VerifyEv(d.fs, filename, file_hash))
    IN  IF ~d.ok
        THEN Result(d.fs, FALSE, d.err, <<>>, <<>>, ev2)
        ELSE IF ~check
        THEN Result(d.fs, TRUE, "none", CachePath(filename), <<>>, ev2)
        ELSE IF check /\ ~VerifyHash(d.fs, CachePath(filename), file_hash)
        THEN Result(d.fs, FALSE, "ValueError", <<>>, <<>>,
                    ev3 \o <<Ev("download", filename, TRUE, out, <<>>),
                             VerifyEv(d.fs, filename, file_hash)>>)
        ELSE Result(d.fs, TRUE, "none", CachePath(filename), <<>>, ev3)

\* After self._download_file(url, file_path) has returned or raised: d.
Downloaded(d, check, filename, file_hash, out, ev) ==
    LET ev2 == Append(ev, Ev("download", filename, d.ok, out, <<>>))
    IN  IF ~d.ok
        THEN Result(d.fs, FALSE, d.err, <<>>, <<>>, ev2)
        ELSE IF ~check
        THEN Result(d.fs, TRUE, "none", CachePath(filename), <<>>, ev2)
        ELSE IF MismatchRaises(d.fs, CachePath(filename), check, file_hash)
        THEN Result(d.fs, FALSE, "ValueError", <<>>, <<>>,
                    Append(ev2, VerifyEv(d.fs, filename, file_hash)))
        ELSE Result(d.fs, TRUE, "none", CachePath(filename), <<>>,
                    Append(ev2, VerifyEv(d.fs, filename, file_hash)))

\* With the registry entry of filename found.
GetKnown(fs, check, filename, file_hash, out, ev) ==
    IF ~DownloadNeeded(fs, CachePath(filename), check, file_hash)
    THEN Result(fs, TRUE, "none", CachePath(filename), <<>>, ev)
    ELSE Downloaded(DownloadFile(fs, CachePath(filename), out), check, filename,
                    file_hash, out, ev)

GetFile(fs, reg, check, filename, out) ==
    IF ~InRegistry(reg, filename)
    THEN Result(fs, FALSE, UnknownResource, <<>>, <<>>, <<>>)
    ELSE GetKnown(fs, check, filename, Lookup(reg, filename).hash, out,
                  PreVerify(fs, check, filename, Lookup(reg, filename).hash))

(***************************************************************************)
(* fetch_single, fetch_subset, fetch_all, fetch_mappers.                   *)
(***************************************************************************)
\* fetch_single: self.cache_path / f"{filename[:-4]}.unzip"
ExtractDirSingle(filename) == DropLast4(filename) \o DotUnzip

\* Variant: the suffix is appended to the whole filename.
ExtractDirAllKeepsSuffix(filename) == filename \o DotUnzip

\* fetch_all: self.cache_path / f"{filename[:-4]}.unzip"
ExtractDirAll(filename) == DropLast4(filename) \o DotUnzip

\* Variant: no entry is taken for the mapping file.
IsMappingNever(filename) == FALSE

\* "dict" in filename
IsMapping(filename) == Contains(filename, DictWord)

\* After self._extract_zip(file_path, extract_dir) has returned or raised: x.
SingleExtracted(x, year, filename, extract_dir, ev) ==
    IF ~x.ok
    THEN Result(x.fs, FALSE, x.err, <<>>, <<>>,
                Append(ev, Ev("extract", filename, FALSE, NoOut, extract_dir)))
    ELSE Result(x.fs, TRUE, "none", <<>>, (year :> x.files),
                Append(ev, Ev("extract", filename, TRUE, NoOut, extract_dir)))

\* Variant: the archive in the cache is extracted whether or not _get_file
\* returned.
SingleGotExtractsAnyway(g, year, filename) ==
    IF ~g.ok /\ ~Exists(g.fs, CachePath(filename))
    THEN Result(g.fs, FALSE, g.err, <<>>, <<>>, g.ev)
    ELSE SingleExtracted(ExtractZip(g.fs, CachePath(filename), ExtractDirSingle(filename)),
                         year, filename, ExtractDirSingle(filename), g.ev)

\* After self._get_file(filename) has returned or raised: g.
SingleGot(g, year, filename) ==
    IF ~g.ok
    THEN Result(g.fs, FALSE,
                \* except FileNotFoundError: raise FileNotFoundError(...)
                IF g.err = "FileNotFoundError" THEN "FileNotFoundError" ELSE g.err,
                <<>>, <<>>, g.ev)
    ELSE SingleExtracted(ExtractZip(g.fs, g.path, ExtractDirSingle(filename)),
                         year, filename, ExtractDirSingle(filename), g.ev)

FetchSingle(fs, reg, check, year, out) ==
    SingleGot(GetFile(fs, reg, check, YearFile(year), out), year, YearFile(year))

\* Variant: a failing year is recorded with no files and the loop goes on.
SubsetMergeCollects(st, yr, r) ==
    IF r.ok
    THEN Result(r.fs, TRUE, "none", <<>>, st.ret @@ (yr :> r.ret), st.ev \o r.ev)
    ELSE Result(r.fs, TRUE, "none", <<>>, st.ret @@ (yr :> <<>>), st.ev \o r.ev)

\* unzipped[yr] = self.fetch_single(yr): an exception leaves the loop and
\* the function.
SubsetMerge(st, yr, r) ==
    IF r.ok
    THEN Result(r.fs, TRUE, "none", <<>>, st.ret @@ (yr :> r.ret), st.ev \o r.ev)
    ELSE Result(r.fs, FALSE, r.err, <<>>, <<>>, st.ev \o r.ev)

RECURSIVE SubsetFrom(_, _, _, _, _, _)
SubsetFrom(st, reg, check, yr, end_yr, outs) ==
    IF ~st.ok \/ yr > end_yr
    THEN st
    ELSE SubsetFrom(SubsetMerge(st, yr, FetchSingle(st.fs, reg, check, yr, outs[yr])),
                    reg, check, yr + 1, end_yr, outs)

\* for yr in range(start_yr, end_yr + 1)
FetchSubset(fs, reg, check, start_yr, end_yr, outs) ==
    SubsetFrom(Result(fs, TRUE, "none", <<>>, <<>>, <<>>), reg, check,
               start_yr, end_yr, outs)

\* print(f"Error processing {filename}: {str(e)}")
ErrorEv(filename) == Ev("error", filename, FALSE, NoOut, <<>>)

\* unzipped[filename] = self._extract_zip(file_path, extract_dir), in the try
AllExtracted(x, filename, extract_dir, unzipped, ev) ==
    IF ~x.ok
    THEN Result(x.fs, TRUE, "none", <<>>, unzipped,
                ev \o <<Ev("extract", filename, FALSE, NoOut, extract_dir),
                        ErrorEv(filename)>>)
    ELSE Result(x.fs, TRUE, "none", <<>>, unzipped @@ (filename :> x.files),
                Append(ev, Ev("extract", filename, TRUE, NoOut, extract_dir)))

\* Variant: an exception of _get_file leaves the loop.
AllGotAborts(g, filename, unzipped, ev) ==
    IF ~g.ok
    THEN Result(g.fs, FALSE, g.err, <<>>, <<>>, ev \o g.ev)
    ELSE IF IsMapping(filename)
    THEN Result(g.fs, TRUE, "none", <<>>, unzipped, ev \o g.ev)
    ELSE AllExtracted(ExtractZip(g.fs, g.path, ExtractDirAll(filename)),
                      filename, ExtractDirAll(filename), unzipped, ev \o g.ev)

\* One iteration of the loop of fetch_all after self._get_file(filename)
\* has returned or raised: g.
AllGot(g, filename, unzipped, ev) ==
    IF ~g.ok
    THEN Result(g.fs, TRUE, "none", <<>>, unzipped, Append(ev \o g.ev, ErrorEv(filename)))
    ELSE IF IsMapping(filename)
    THEN Result(g.fs, TRUE, "none", <<>>, unzipped, ev \o g.ev)
    ELSE AllExtracted(ExtractZip(g.fs, g.path, ExtractDirAll(filename)),
                      filename, ExtractDirAll(filename), unzipped, ev \o g.ev)

RECURSIVE AllFrom(_, _, _, _, _)
AllFrom(st, reg, check, i, outs) ==
    IF ~st.ok \/ i > Len(reg)
    THEN st
    ELSE AllFrom(AllGot(GetFile(st.fs, reg, check, reg[i].filename, outs[i]),
                        reg[i].filename, st.ret, st.ev),
                 reg, check, i + 1, outs)

\* for filename in self.registry_dict
FetchAll(fs, reg, check, outs) ==
    AllFrom(Result(fs, TRUE, "none", <<>>, <<>>, <<>>), reg, check, 1, outs)

\* return self._get_file("mapping.dict")
FetchMappers(fs, reg, check, out) == GetFile(fs, reg, check, MappingName, out)

(***************************************************************************)
(* Manifests of the fetch model: well-formed lines, a blank line, a short  *)
(* line and a repeated filename; archive names that differ in the suffix   *)
(* only; an archive named like the mapping file.                           *)
(***************************************************************************)
Sp == <<" ">>
Url(filename) == <<"u", "/">> \o filename
Line(filename, c) == ((filename \o Sp) \o HexDigest(c)) \o ((Sp \o Url(filename)) \o <<"\n">>)

FirstArchive == YearFile(MaxYear - 1)
SecondArchive == YearFile(MaxYear)

\* The first archive's name with its suffix in capitals, and an archive
\* whose name contains "dict".
UpperArchive == Str(MaxYear - 1) \o <<".", "Z", "I", "P">>
DictArchive == DictWord \o FirstArchive

Manifests ==
    { <<Line(FirstArchive, 1), Line(SecondArchive, 3)>>,
      <<Line(MappingName, 0), <<"\n">>, FirstArchive \o Sp, Line(MappingName, 2),
        Line(FirstArchive, 1)>>,
      <<Line(FirstArchive, 1), Line(UpperArchive, 3)>>,
      <<Line(DictArchive, 1), Line(MappingName, 2)>> }

\* The filenames a caller passes to _get_file.
Names == {YearFile(y) : y \in Years} \cup {MappingName}

(***************************************************************************)
(* The record of a call.  `before` is the cache the call started from;     *)
(* `follows` relates the call to the call made directly before it.         *)
(***************************************************************************)
NDownloads(ev) == Cardinality({i \in 1..Len(ev) : ev[i].stage = "download"})

GetOps == {"_get_file", "fetch_mappers"}

Follows(key) ==
    IF last.op \in GetOps /\ last.key = key
    THEN [op |-> "get", ok |-> last.ok, err |-> last.err, ndl |-> NDownloads(last.ev)]
    ELSE IF last.op = "tamper" /\ last.key = key
    THEN [op |-> "tamper", ok |-> last.follows.op = "get" /\ last.follows.ok,
          err |-> "none", ndl |-> 0]
    ELSE [op |-> "other", ok |-> FALSE, err |-> "none", ndl |-> 0]

Unrelated == [op |-> "other", ok |-> FALSE, err |-> "none", ndl |-> 0]

NoCall ==
    [op |-> "init", key |-> <<>>, years |-> <<>>, ok |-> TRUE, err |-> "none",
     path |-> <<>>, ret |-> <<>>, ev |-> <<>>, before |-> <<>>,
     follows |-> Unrelated]

\* No call is in progress: the calls of the sequential specifications run
\* one after the other, each to its end.
NoneRunning == <<>>

\* The call `op` ran from the current cache and ended as r.
Called(op, key, years, r, follows) ==
    /\ cache' = r.fs
    /\ last' = [op |-> op, key |-> key, years |-> years, ok |-> r.ok,
                err |-> r.err, path |-> r.path, ret |-> r.ret, ev |-> r.ev,
                before |-> cache, follows |-> follows]
    /\ UNCHANGED <<registry, constructed, registry_dict, check_hash, show_progress,
                   running>>

(***************************************************************************)
(* Actions: one per public operation, plus the environment changing the    *)
(* bytes of a cached file.                                                 *)
(***************************************************************************)
DoGetFile(filename, out) ==
    /\ constructed
    /\ Called("_get_file", filename, <<>>,
              GetFile(cache, registry_dict, check_hash, filename, out),
              Follows(filename))

DoFetchMappers(out) ==
    /\ constructed
    /\ Called("fetch_mappers", MappingName, <<>>,
              FetchMappers(cache, registry_dict, check_hash, out),
              Follows(MappingName))

DoFetchSingle(year, out) ==
    /\ constructed
    /\ Called("fetch_single", YearFile(year), <<year>>,
              FetchSingle(cache, registry_dict, check_hash, year, out),
              Unrelated)

DoFetchSubset(start_yr, end_yr, outs) ==
    /\ constructed
    /\ Called("fetch_subset", <<>>, <<start_yr, end_yr>>,
              FetchSubset(cache, registry_dict, check_hash, start_yr, end_yr, outs),
              Unrelated)

DoFetchAll(outs) ==
    /\ constructed
    /\ Called("fetch_all", <<>>, <<>>,
              FetchAll(cache, registry_dict, check_hash, outs),
              Unrelated)

\* Something outside the program rewrites the bytes of a cached file.
Tamper(filename, c) ==
    /\ constructed
    /\ Exists(cache, filename)
    /\ cache[filename].kind = "file"
    /\ cache[filename].content # c
    /\ Called("tamper", filename, <<>>,
              Result(Write(cache, filename, FileEntry(c)), TRUE, "none", <<>>, <<>>, <<>>),
              Follows(filename))

\* The responses the remote can give to the request a _get_file call makes:
\* NoOut when the call makes no request.
Responses(filename) ==
    IF /\ InRegistry(registry_dict, filename)
       /\ DownloadNeeded(cache, CachePath(filename), check_hash,
                         Lookup(registry_dict, filename).hash)
    THEN Outcomes
    ELSE {NoOut}

\* One response per key of a batch.
BatchResponses(keys, names) ==
    {outs \in [keys -> Outcomes \cup {NoOut}] :
        \A k \in keys : outs[k] \in Responses(names[k])}

\* for filename in self.registry_dict
RegistryNames == [i \in 1..Len(registry_dict) |-> registry_dict[i].filename]

\* for yr in range(start_yr, end_yr + 1): f'{yr}.zip'
YearFiles == [yr \in Years |-> YearFile(yr)]

(***************************************************************************)
(* Spec: sequences of single-file calls on a cache that starts empty, with *)
(* the cached files rewritten from outside between calls.                  *)
(***************************************************************************)
Init ==
    /\ registry \in Manifests
    /\ constructed = TRUE
    /\ registry_dict = LoadRegistry(registry)
    /\ check_hash \in BOOLEAN
    /\ show_progress \in BOOLEAN
    /\ cache = <<>>
    /\ running = NoneRunning
    /\ last = NoCall

Next ==
    \/ \E filename \in Names : \E out \in Responses(filename) :
           DoGetFile(filename, out)
    \/ \E out \in Responses(MappingName) : DoFetchMappers(out)
    \/ \E filename \in Names, c \in Contents : Tamper(filename, c)

Spec == Init /\ [][Next]_vars

(***************************************************************************)
(* SpecCall: one call of any operation, from any cache the earlier runs    *)
(* can have left: each registry file absent or with any content, each      *)
(* extraction directory absent or holding the members of some archive.     *)
(***************************************************************************)
ArchiveNames(reg) == {f \in Keys(reg) : ~IsMapping(f)}

DirStates == {DirEntry(Members(c)) : c \in {c \in Contents : IsZip(c)}}

Caches(reg) ==
    LET dirs == {ExtractDirAll(f) : f \in ArchiveNames(reg)}
        all == [Keys(reg) \cup dirs ->
                   {FileEntry(c) : c \in Contents} \cup DirStates \cup {NoOut}]
    IN  { [n \in {m \in DOMAIN f : f[m] # NoOut} |-> f[n]] :
            f \in {g \in all : \A n \in DOMAIN g :
                      g[n] = NoOut \/ (g[n].kind = "dir" <=> n \in dirs)} }

InitCall ==
    /\ registry \in Manifests
    /\ constructed = TRUE
    /\ registry_dict = LoadRegistry(registry)
    /\ check_hash \in BOOLEAN
    /\ show_progress \in BOOLEAN
    /\ cache \in Caches(registry_dict)
    /\ running = NoneRunning
    /\ last = NoCall

Fresh == last.op = "init"

NextCall ==
    \/ Fresh /\ \E filename \in Names : \E out \in Responses(filename) :
           DoGetFile(filename, out)
    \/ Fresh /\ \E out \in Responses(MappingName) : DoFetchMappers(out)
    \/ Fresh /\ \E year \in Years : \E out \in Responses(YearFile(year)) :
           DoFetchSingle(year, out)
    \/ Fresh /\ \E start_yr \in Years, end_yr \in Years :
           \E outs \in BatchResponses(start_yr..end_yr, YearFiles) :
               DoFetchSubset(start_yr, end_yr, outs)
    \/ Fresh /\ \E outs \in BatchResponses(1..Len(registry_dict), RegistryNames) :
           DoFetchAll(outs)

SpecCall == InitCall /\ [][NextCall]_vars

(***************************************************************************)
(* SpecLoad: the constructor loading a generated manifest.  A generated    *)
(* line has nf fields: a filename, a hash and fillers, separated by single *)
(* blanks or, when padded, by runs of blanks and tabs with blanks around.  *)
(***************************************************************************)
GenKeys == {<<"a">>, <<"b">>}
GenVals == {<<"x">>, <<"y">>}

RECURSIVE Join(_, _)
Join(fields, sep) ==
    IF fields = <<>> THEN <<>>
    ELSE IF Len(fields) = 1 THEN fields[1]
    ELSE (fields[1] \o sep) \o Join(Tail(fields), sep)

GenLine(nf, key, val, pad) ==
    LET fields == SubSeq(<<key, val>> \o [i \in 1..MaxFields |-> <<"u">>], 1, nf)
        body == Join(fields, IF pad THEN <<" ", "\t">> ELSE <<" ">>)
    IN  IF pad THEN (<<" ">> \o body) \o <<" ", "\n">> ELSE body \o <<"\n">>

\* Short lines vary in length and padding only; lines longer than three
\* fields are not padded.
GenShapes ==
    {sh \in [nf : 0..MaxFields, key : GenKeys, val : GenVals, pad : BOOLEAN] :
        /\ sh.nf < 3 => sh.key = <<"a">> /\ sh.val = <<"x">>
        /\ sh.nf > 3 => ~sh.pad}

GenLines == {GenLine(sh.nf, sh.key, sh.val, sh.pad) : sh \in GenShapes}

GenManifests == UNION {[1..n -> GenLines] : n \in 0..MaxLines}

InitLoad ==
    /\ registry \in GenManifests
    /\ constructed = FALSE
    /\ registry_dict = <<>>
    /\ check_hash = TRUE
    /\ show_progress = TRUE
    /\ cache = <<>>
    /\ running = NoneRunning
    /\ last = NoCall

\* __init__: self.check_hash = check_hash; self.show_progress = show_progress;
\* self.registry_dict = self._load_registry()
Construct(check, show) ==
    /\ ~constructed
    /\ constructed' = TRUE
    /\ check_hash' = check
    /\ show_progress' = show
    /\ registry_dict' = LoadRegistry(registry)
    /\ UNCHANGED <<registry, cache, running, last>>

\* show_progress is left at its default (show_progress=True): it plays no
\* part in the loading of the registry.
NextLoad == \E check \in BOOLEAN : Construct(check, show_progress)

SpecLoad == InitLoad /\ [][NextLoad]_vars

(***************************************************************************)
(* Vocabulary of the properties.                                           *)
(***************************************************************************)
Expected(filename) == Lookup(registry_dict, filename).hash

\* The file at cachePath/filename in fs has the digest the registry expects.
Verifies(fs, filename) ==
    /\ Exists(fs, CachePath(filename))
    /\ fs[CachePath(filename)].kind = "file"
    /\ HexDigest(fs[CachePath(filename)].content) = Expected(filename)

IsGet == last.op \in GetOps /\ InRegistry(registry_dict, last.key)

DownloadEvents == {i \in 1..Len(last.ev) : last.ev[i].stage = "download"}
VerifyEvents == {i \in 1..Len(last.ev) : last.ev[i].stage = "verify"}

\* Every request of the call was answered 200 with the complete expected bytes.
RemoteGood ==
    \A i \in DownloadEvents :
        /\ ~last.ev[i].out.net /\ ~last.ev[i].out.cut
        /\ last.ev[i].out.status = 200
        /\ HexDigest(last.ev[i].out.body) = Expected(last.ev[i].key)

\* C1: with hash-checking enabled, whenever _get_file returns a path, it is
\* cachePath/k and the file there has the digest the registry expects; and
\* when a download completed but the file does not have that digest, the
\* call raised ValueError (IntegrityMismatch) instead of returning.
C1_IntegrityGate ==
    (check_hash /\ IsGet) =>
        /\ last.ok => last.path = CachePath(last.key) /\ Verifies(cache, last.key)
        /\ ((\E i \in DownloadEvents : last.ev[i].ok) /\ ~Verifies(cache, last.key))
               => ~last.ok /\ last.err = "ValueError"

C1_Witness ==
    /\ check_hash /\ IsGet /\ last.ok
    /\ Cardinality(DownloadEvents) = 1
    /\ Exists(last.before, last.key) /\ ~Verifies(last.before, last.key)

\* C2 as stated: two _get_file calls for the same registry key in direct
\* succession, with hash-checking enabled, download at most once in total
\* and the second call downloads nothing.
C2_TwoCallsOneDownload ==
    (check_hash /\ IsGet /\ last.follows.op = "get") =>
        /\ last.follows.ndl + Cardinality(DownloadEvents) <= 1
        /\ Cardinality(DownloadEvents) = 0

\* C2 amended: when the first of the two calls returned a path, the two
\* calls download at most once in total and the second call is a cache hit:
\* it downloads nothing, returns the path and leaves the cache as it was.
C2_SecondCallAfterSuccessIsHit ==
    (check_hash /\ IsGet /\ last.follows.op = "get" /\ last.follows.ok) =>
        /\ last.follows.ndl + Cardinality(DownloadEvents) <= 1
        /\ Cardinality(DownloadEvents) = 0
        /\ last.ok /\ last.path = CachePath(last.key)
        /\ cache = last.before

C2_Witness ==
    /\ check_hash /\ IsGet /\ last.follows.op = "get" /\ last.follows.ok
    /\ last.follows.ndl = 1 /\ last.ok

\* C3 as stated: with hash-checking disabled and a file already at
\* cachePath/k, _get_file makes no download and returns the path.
C3_NoDownloadWhenFileExists ==
    (~check_hash /\ IsGet /\ Exists(last.before, CachePath(last.key))) =>
        /\ Cardinality(DownloadEvents) = 0
        /\ last.ok /\ last.path = CachePath(last.key)

\* C3 amended: with hash-checking disabled and a file already at
\* cachePath/k, _get_file verifies nothing and downloads exactly once; when
\* the download completes the file holds the downloaded bytes, whatever
\* they are, and the path is returned; when it fails the error propagates.
C3_AlwaysDownloadsWhenUnchecked ==
    (~check_hash /\ IsGet /\ Exists(last.before, CachePath(last.key))) =>
        /\ Cardinality(DownloadEvents) = 1
        /\ VerifyEvents = {}
        /\ \A i \in DownloadEvents :
               /\ last.ok <=> (~last.ev[i].out.net /\ ~last.ev[i].out.cut
                               /\ last.ev[i].out.status = 200)
               /\ last.ok => /\ last.path = CachePath(last.key)
                             /\ cache[CachePath(last.key)].content = last.ev[i].out.body
               /\ ~last.ok => last.err \in {"NetworkError", "HTTPError", "ReadError"}

C3_Witness ==
    /\ ~check_hash /\ IsGet /\ Exists(last.before, CachePath(last.key))
    /\ last.ok /\ Cardinality(DownloadEvents) = 1
    /\ cache[CachePath(last.key)].content # last.before[CachePath(last.key)].content

(***************************************************************************)
(* Batch vocabulary.                                                       *)
(***************************************************************************)
EventsOf(filename) == {i \in 1..Len(last.ev) : last.ev[i].key = filename}

Processed(filename) == EventsOf(filename) # {}

\* The key's archive was fetched and unpacked by the call.
Unpacked(filename) ==
    \E i \in EventsOf(filename) : last.ev[i].stage = "extract" /\ last.ev[i].ok

\* ".zip" replaced by ".unzip", computed from the characters of the name.
UnzipName(filename) ==
    [i \in 1..(Len(filename) + 2) |->
        IF i <= Len(filename) - 3 THEN filename[i] ELSE DotUnzip[i - (Len(filename) - 4)]]

\* The paths of the files now in the key's extraction directory.
FilesIn(fs, dir) == {<<dir, m>> : m \in fs[dir].files}

\* Nothing of the key was touched: its file and directory are as before.
Untouched(filename) ==
    \A n \in {CachePath(filename), UnzipName(filename)} :
        /\ Exists(cache, n) <=> Exists(last.before, n)
        /\ Exists(cache, n) => cache[n] = last.before[n]

RangeOf == last.years[1]..last.years[2]

BrokenAndValid(b, v) ==
    /\ b # v
    /\ \E i \in DownloadEvents : last.ev[i].key = b /\ ~last.ev[i].ok
    /\ ~IsMapping(v) /\ Verifies(cache, v) /\ IsZip(cache[CachePath(v)].content)
    /\ \A i \in DownloadEvents : last.ev[i].key = v => last.ev[i].ok

\* C5 as stated: fetch_all on a registry of a broken and a valid archive
\* entry, in either order, raises nothing, returns the extracted file list
\* for the valid entry, and its result records the broken entry's failure.
C5_ResultRecordsFailure ==
    (last.op = "fetch_all" /\ Len(registry_dict) = 2) =>
        \A b, v \in Keys(registry_dict) :
            BrokenAndValid(b, v) =>
                /\ last.ok
                /\ v \in DOMAIN last.ret
                /\ last.ret[v] = FilesIn(cache, UnzipName(v))
                /\ Members(cache[CachePath(v)].content) \subseteq cache[UnzipName(v)].files
                /\ b \in DOMAIN last.ret

\* C5 amended: fetch_all on such a registry raises nothing, processes both
\* entries and returns the extracted file list for the valid entry; the
\* broken entry has no entry in the returned mapping: its failure is only
\* printed ("Error processing <filename>"), so the result reports a failure
\* by the absence of the key.
C5_FailureOnlyPrinted ==
    (last.op = "fetch_all" /\ Len(registry_dict) = 2) =>
        \A b, v \in Keys(registry_dict) :
            BrokenAndValid(b, v) =>
                /\ last.ok
                /\ Processed(b) /\ Processed(v)
                /\ v \in DOMAIN last.ret
                /\ last.ret[v] = FilesIn(cache, UnzipName(v))
                /\ Members(cache[CachePath(v)].content) \subseteq cache[UnzipName(v)].files
                /\ b \notin DOMAIN last.ret
                /\ \E i \in EventsOf(b) : last.ev[i].stage = "error"

\* The broken entry comes first in the registry and the valid one is
\* downloaded after it.
C5_Witness ==
    /\ last.op = "fetch_all" /\ Len(registry_dict) = 2
    /\ BrokenAndValid(registry_dict[1].filename, registry_dict[2].filename)
    /\ Cardinality(DownloadEvents) = 2
    /\ registry_dict[2].filename \in DOMAIN last.ret

\* C6: a _get_file call that directly follows a rewrite of the cached file
\* of a key fetched successfully just before, with hash-checking enabled,
\* the rewritten file not matching the expected hash and the remote serving
\* the expected bytes, downloads exactly once, returns the path and leaves a
\* file that verifies.
C6_TamperingRecovery ==
    (/\ check_hash /\ IsGet
     /\ last.follows.op = "tamper" /\ last.follows.ok
     /\ ~Verifies(last.before, last.key)
     /\ RemoteGood) =>
        /\ Cardinality(DownloadEvents) = 1
        /\ last.ok /\ last.path = CachePath(last.key)
        /\ Verifies(cache, last.key)

C6_Witness ==
    /\ check_hash /\ IsGet
    /\ last.follows.op = "tamper" /\ last.follows.ok
    /\ ~Verifies(last.before, last.key)
    /\ Cardinality(DownloadEvents) = 1 /\ RemoteGood
    /\ last.ok

\* C7: with hash-checking enabled and the file at cachePath/k matching the
\* expected hash, _get_file returns exactly cachePath/k, makes no request
\* and leaves the cache, the file's content included, unchanged.
C7_CacheHit ==
    (check_hash /\ IsGet /\ Verifies(last.before, last.key)) =>
        /\ last.ok /\ last.path = last.key
        /\ DownloadEvents = {}
        /\ cache = last.before

C7_Witness ==
    /\ check_hash /\ IsGet /\ Verifies(last.before, last.key)
    /\ last.ok /\ VerifyEvents # {}

\* C8: _get_file for a filename absent from the registry, and fetch_single
\* for a year whose '<year>.zip' is absent, raise FileNotFoundError
\* (UnknownResource) without verifying, downloading or extracting anything
\* and leave the cache unchanged.
C8_UnknownKey ==
    (/\ last.op \in GetOps \cup {"fetch_single"}
     /\ ~InRegistry(registry_dict, last.key)) =>
        /\ ~last.ok /\ last.err = "FileNotFoundError"
        /\ last.ev = <<>>
        /\ cache = last.before

C8_Witness ==
    /\ last.op = "fetch_single"
    /\ ~InRegistry(registry_dict, last.key)
    /\ ~last.ok
    /\ DOMAIN cache # {}

(***************************************************************************)
(* Registry loading: the fields of a line, read off its characters.        *)
(***************************************************************************)
FieldStarts(line) ==
    {i \in 1..Len(line) : ~IsSpace(line[i]) /\ (i = 1 \/ IsSpace(line[i - 1]))}

FieldEnd(line, i) ==
    CHOOSE j \in i..Len(line) :
        /\ \A k \in i..j : ~IsSpace(line[k])
        /\ j = Len(line) \/ IsSpace(line[j + 1])

\* The n-th whitespace-separated field of the line.
Field(line, n) ==
    LET i == CHOOSE st \in FieldStarts(line) :
                 Cardinality({t \in FieldStarts(line) : t < st}) = n - 1
    IN  SubSeq(line, i, FieldEnd(line, i))

NumFields(line) == Cardinality(FieldStarts(line))

\* The lines of the manifest with at least three fields.
GoodLines == {i \in 1..Len(registry) : NumFields(registry[i]) >= 3}

\* The last line with at least three fields whose first field is filename.
LastLineOf(filename) ==
    CHOOSE i \in GoodLines :
        /\ Field(registry[i], 1) = filename
        /\ \A k \in GoodLines : Field(registry[k], 1) = filename => k <= i

\* C9: the loaded table's key set is the set of first fields of the lines
\* with at least three whitespace-separated fields; other lines contribute
\* nothing; each filename occurs once and maps to the (hash, url) of the
\* last such line that names it.
C9_RegistryLoading ==
    constructed =>
        /\ Keys(registry_dict) = {Field(registry[i], 1) : i \in GoodLines}
        /\ Cardinality(Keys(registry_dict)) = Len(registry_dict)
        /\ \A j \in 1..Len(registry_dict) :
               LET line == registry[LastLineOf(registry_dict[j].filename)]
               IN  /\ registry_dict[j].hash = Field(line, 2)
                   /\ registry_dict[j].url = Field(line, 3)

\* A manifest with a line of fewer than three fields and a filename on two
\* well-formed lines with different hashes.
C9_Witness ==
    /\ constructed
    /\ \E i \in 1..Len(registry) : i \notin GoodLines
    /\ \E i, k \in GoodLines :
           /\ i < k
           /\ Field(registry[i], 1) = Field(registry[k], 1)
           /\ Field(registry[i], 2) # Field(registry[k], 2)
    /\ Len(registry_dict) = 1

(***************************************************************************)
(* Cache layout.                                                           *)
(***************************************************************************)
ExtractEvents == {i \in 1..Len(last.ev) : last.ev[i].stage = "extract"}

EndsWithZip(filename) ==
    Len(filename) > 4 /\ SubSeq(filename, Len(filename) - 3, Len(filename)) = DotZip

\* C10: in fetch_single, fetch_subset and fetch_all, the archive F.zip is
\* extracted into cachePath/F.unzip, whatever the cache held before the
\* call; that directory exists after the extraction, and no other
\* directory of the cache is created or changed.
C10_DeterministicLayout ==
    /\ \A i \in ExtractEvents :
           EndsWithZip(last.ev[i].key) =>
               /\ last.ev[i].dir = UnzipName(last.ev[i].key)
               /\ Exists(cache, UnzipName(last.ev[i].key))
               /\ cache[UnzipName(last.ev[i].key)].kind = "dir"
    /\ \A n \in DOMAIN cache :
           (/\ ~Fresh
            /\ cache[n].kind = "dir"
            /\ (~Exists(last.before, n) \/ last.before[n] # cache[n]))
               => \E i \in ExtractEvents : n = UnzipName(last.ev[i].key)

\* fetch_all has created the directory of an archive that had none.
C10_Witness ==
    /\ last.op = "fetch_all"
    /\ \E i \in ExtractEvents :
           /\ last.ev[i].ok
           /\ EndsWithZip(last.ev[i].key)
           /\ ~Exists(last.before, UnzipName(last.ev[i].key))
           /\ Exists(cache, UnzipName(last.ev[i].key))

(***************************************************************************)
(* Stages of one _get_file call.                                           *)
(***************************************************************************)
DownloadErrors == {"NetworkError", "HTTPError", "ReadError"}

\* C12: one _get_file call downloads at most once.  A download is preceded
\* by nothing or by the one failed verification of the existing file; a
\* failed download is the last stage and ends the call with its error; with
\* hash-checking enabled a completed download is followed by exactly one
\* verification, whose failure ends the call in ValueError
\* (IntegrityMismatch) with no further stage; a call without a download is
\* one passed verification of the existing file.
C12_NoAutomaticRetry ==
    (IsGet /\ InRegistry(registry_dict, last.key)) =>
        /\ Cardinality(DownloadEvents) <= 1
        /\ \A i \in DownloadEvents :
               /\ i <= 2
               /\ i = 2 => last.ev[1].stage = "verify" /\ ~last.ev[1].ok
               /\ i = 1 => ~check_hash \/ ~Exists(last.before, CachePath(last.key))
               /\ ~last.ev[i].ok =>
                      /\ Len(last.ev) = i
                      /\ ~last.ok /\ last.err \in DownloadErrors
               /\ (last.ev[i].ok /\ check_hash) =>
                      /\ Len(last.ev) = i + 1
                      /\ last.ev[i + 1].stage = "verify"
                      /\ last.ev[i + 1].ok <=> last.ok
                      /\ ~last.ev[i + 1].ok => last.err = "ValueError"
               /\ (last.ev[i].ok /\ ~check_hash) => Len(last.ev) = i /\ last.ok
        /\ DownloadEvents = {} =>
               /\ check_hash /\ last.ok
               /\ Len(last.ev) = 1
               /\ last.ev[1].stage = "verify" /\ last.ev[1].ok
               /\ cache = last.before

\* An invalid file was found, replaced by a download that does not match
\* either, and the call ended in ValueError.
C12_Witness ==
    /\ IsGet /\ check_hash
    /\ Len(last.ev) = 3
    /\ last.ev[2].stage = "download" /\ last.ev[2].ok
    /\ ~last.ev[3].ok
    /\ last.err = "ValueError"

\* C13: in fetch_single, fetch_subset and fetch_all, the extraction of a
\* key comes after every other stage of that key and directly follows the successful
\* end of the key's _get_file: no download of the key failed; with
\* hash-checking enabled the stage before the extraction is a passed
\* verification of the key, itself after the key's download if there was
\* one, and the archive verifies; with hash-checking disabled the stage
\* before the extraction is the key's completed download.
C13_StageOrdering ==
    \A i \in ExtractEvents :
        LET k == last.ev[i].key
            \* the stages of the key other than this extraction and the
            \* report of its failure that fetch_all prints
            mine == {j \in EventsOf(k) \ {i} : last.ev[j].stage # "error"}
        IN  /\ \A j \in mine :
                   /\ j < i
                   /\ last.ev[j].stage \in {"verify", "download"}
                   /\ last.ev[j].stage = "download" => last.ev[j].ok
            /\ i > 1 /\ last.ev[i - 1].key = k /\ last.ev[i - 1].ok
            /\ check_hash =>
                   /\ last.ev[i - 1].stage = "verify"
                   /\ Verifies(cache, k)
                   /\ \A j \in mine : last.ev[j].stage = "download" => j = i - 2
            /\ ~check_hash => last.ev[i - 1].stage = "download"

\* fetch_all, with hash-checking enabled, has downloaded, verified and
\* extracted one archive, and has not extracted an archive that failed its
\* verification after the download.
C13_Witness ==
    /\ last.op = "fetch_all" /\ check_hash
    /\ \E i \in ExtractEvents :
           /\ i > 2 /\ last.ev[i - 2].stage = "download"
           /\ last.ev[i - 2].key = last.ev[i].key
    /\ \E j \in VerifyEvents :
           /\ j > 1 /\ last.ev[j - 1].stage = "download" /\ ~last.ev[j].ok
           /\ \A i \in ExtractEvents : last.ev[i].key # last.ev[j].key

\* C15: with hash-checking disabled, _get_file for a registry key never
\* verifies a hash and never raises ValueError (IntegrityMismatch); when
\* its download meets no error it returns cachePath/k, whatever the file
\* held before and whatever bytes were downloaded.
C15_UncheckedAcceptsAll ==
    (~check_hash /\ IsGet /\ InRegistry(registry_dict, last.key)) =>
        /\ VerifyEvents = {}
        /\ last.err # "ValueError"
        /\ (\A i \in DownloadEvents : last.ev[i].ok) =>
               last.ok /\ last.path = CachePath(last.key)
        /\ ~last.ok => last.err \in DownloadErrors

\* A path is returned for a file that does not have the expected digest,
\* in place of a file that did not have it either.
C15_Witness ==
    /\ ~check_hash /\ IsGet /\ last.ok
    /\ last.path = CachePath(last.key)
    /\ Exists(last.before, last.key) /\ ~Verifies(last.before, last.key)
    /\ ~Verifies(cache, last.key)

\* C16: when the stream of a download breaks after the target was opened,
\* _get_file raises the read error and the truncated file stays at
\* cachePath/k; the _get_file call for the same key made directly after
\* it, with hash-checking enabled, verifies that file, finds the mismatch
\* and downloads again, and a path it returns is that of a file with the
\* expected digest.
C16_PartialDownloadRecovery ==
    /\ (IsGet /\ \E i \in DownloadEvents : last.ev[i].out.cut) =>
           /\ ~last.ok /\ last.err = "ReadError"
           /\ Exists(cache, CachePath(last.key))
           /\ cache[CachePath(last.key)] = FileEntry(EmptyContent)
    /\ (check_hash /\ IsGet /\ last.follows.op = "get" /\ last.follows.err = "ReadError") =>
           /\ Exists(last.before, CachePath(last.key))
           /\ Len(last.ev) >= 2
           /\ last.ev[1].stage = "verify" /\ ~last.ev[1].ok
           /\ last.ev[2].stage = "download"
           /\ last.ok => Verifies(cache, last.key)

\* The call after the broken download has downloaded again and returned.
C16_Witness ==
    /\ check_hash /\ IsGet /\ last.follows.op = "get" /\ last.follows.err = "ReadError"
    /\ last.before[CachePath(last.key)] = FileEntry(EmptyContent)
    /\ Cardinality(DownloadEvents) = 1
    /\ last.ok

(***************************************************************************)
(* HTTP status handling of the downloader.                                 *)
(***************************************************************************)
\* The download stages whose request was answered and whose stream did not
\* break.
AnsweredDownloads ==
    {i \in DownloadEvents : ~last.ev[i].out.net /\ ~last.ev[i].out.cut}

\* C17 as stated: absent a network or read error, a download fails exactly
\* when the status is outside 200..299, every 2xx body is written to the
\* target, and a rejected status leaves the target as it was.
C17_Rejects2xxOnly ==
    IsGet =>
        \A i \in AnsweredDownloads :
            /\ last.ev[i].ok <=> last.ev[i].out.status \in 200..299
            /\ last.ev[i].ok =>
                   cache[CachePath(last.key)] = FileEntry(last.ev[i].out.body)
            /\ ~last.ev[i].ok => last.err = "HTTPError" /\ cache = last.before

\* C17 amended: absent a network or read error, a download fails with the
\* HTTP error exactly when the status is not 200 (other 2xx statuses are
\* rejected too); the body of a 200 response is written to the target, and
\* a rejected status leaves the target unopened: the cache is as before.
C17_RejectsAllBut200 ==
    IsGet =>
        \A i \in AnsweredDownloads :
            /\ last.ev[i].ok <=> last.ev[i].out.status = 200
            /\ last.ev[i].ok =>
                   cache[CachePath(last.key)] = FileEntry(last.ev[i].out.body)
            /\ ~last.ev[i].ok => last.err = "HTTPError" /\ cache = last.before

\* A 2xx status other than 200 was rejected and the existing file kept.
C17_Witness ==
    /\ IsGet /\ ~last.ok /\ last.err = "HTTPError"
    /\ \E i \in AnsweredDownloads :
           last.ev[i].out.status \in 201..299
    /\ Exists(last.before, CachePath(last.key))
    /\ cache = last.before

(***************************************************************************)
(* Extraction inventory.                                                   *)
(***************************************************************************)
\* The files of directory dir in fs, none when it does not exist.
FilesBefore(fs, dir) == IF Exists(fs, dir) THEN fs[dir].files ELSE {}

\* C19: the one _extract_zip call of a fetch_single leaves the destination
\* directory existing, also when the archive cannot be opened; when it
\* succeeds the directory holds every member of the archive and every file
\* it held before, and the returned list is exactly the files then in the
\* directory, with or without progress reporting.
C19_ExtractionInventory ==
    last.op = "fetch_single" =>
        \A i \in ExtractEvents :
            LET dir == last.ev[i].dir
                members == Members(cache[CachePath(last.key)].content)
                old == FilesBefore(last.before, dir)
            IN  /\ Exists(cache, dir) /\ cache[dir].kind = "dir"
                /\ ~last.ev[i].ok =>
                       /\ cache[dir].files = old
                       /\ last.err = "BadZipFile"
                /\ last.ev[i].ok =>
                       /\ last.ok
                       /\ cache[dir].files = old \cup members
                       /\ last.ret[last.years[1]] =
                              {<<dir, m>> : m \in old \cup members}

\* With progress reporting, an archive was unpacked into a directory that
\* held a file the archive does not have, and the file is reported.
C19_Witness ==
    /\ last.op = "fetch_single" /\ last.ok /\ show_progress
    /\ \E i \in ExtractEvents :
           /\ Exists(last.before, last.ev[i].dir)
           /\ \E m \in last.before[last.ev[i].dir].files :
                  /\ m \notin Members(cache[CachePath(last.key)].content)
                  /\ <<last.ev[i].dir, m>> \in last.ret[last.years[1]]

\* C20: no operation removes a path of the cache: every file and directory
\* that existed before a call exists after it, with its kind, and every
\* file inside an extraction directory is still in it, whether the call
\* returned or raised; and the registry table is the table loaded from the
\* manifest at construction.
C20_NoEviction ==
    /\ constructed => registry_dict = LoadRegistry(registry)
    /\ ~Fresh =>
           \A n \in DOMAIN last.before :
               /\ Exists(cache, n)
               /\ cache[n].kind = last.before[n].kind
               /\ last.before[n].files \subseteq cache[n].files

\* fetch_all met a failure and unpacked an archive into a directory that
\* held a file the archive does not have.
C20_Witness ==
    /\ last.op = "fetch_all"
    /\ \E i \in 1..Len(last.ev) : last.ev[i].stage = "error"
    /\ \E i \in ExtractEvents :
           /\ last.ev[i].ok
           /\ Exists(last.before, last.ev[i].dir)
           /\ ~(last.before[last.ev[i].dir].files
                    \subseteq Members(cache[CachePath(last.ev[i].key)].content))

(***************************************************************************)
(* Paths per registry key in fetch_all.                                    *)
(***************************************************************************)
\* The cache file and the extraction directory derived from a filename.
PathsOf(filename) == {CachePath(filename), ExtractDirAll(filename)}

\* C11 as stated: for any two distinct registry filenames the cache paths
\* and extraction directories are pairwise disjoint; in fetch_all no key is
\* extracted into a path of another key, and the file lists returned for
\* two keys name no common path.
C11_DisjointPaths ==
    last.op = "fetch_all" =>
        \A a, b \in Keys(registry_dict) :
            a # b =>
                /\ PathsOf(a) \cap PathsOf(b) = {}
                /\ \A i \in ExtractEvents :
                       last.ev[i].key = a => last.ev[i].dir \notin PathsOf(b)
                /\ (a \in DOMAIN last.ret /\ b \in DOMAIN last.ret)
                       => last.ret[a] \cap last.ret[b] = {}

\* C14: fetch_all raises nothing and fetches every registry entry;
\* mapping.dict, like every entry whose name contains "dict", is fetched
\* but never handed to the extractor and is no key of the result; every
\* other entry whose fetch returned is handed to the extractor; the keys of
\* the result are exactly the entries whose extraction succeeded, each with
\* a file list that names the members of its archive, all of them files of
\* its extraction directory.
C14_FetchAllClassification ==
    last.op = "fetch_all" =>
        /\ last.ok
        /\ \A k \in Keys(registry_dict) :
               /\ Processed(k)
               /\ \E i \in EventsOf(k) : last.ev[i].stage \in {"verify", "download"}
               /\ Contains(k, DictWord) =>
                      /\ \A i \in EventsOf(k) : last.ev[i].stage # "extract"
                      /\ k \notin DOMAIN last.ret
               /\ (~Contains(k, DictWord)
                      /\ \A i \in EventsOf(k) : last.ev[i].stage # "error")
                      => Unpacked(k)
        /\ DOMAIN last.ret = {k \in Keys(registry_dict) : Unpacked(k)}
        /\ \A k \in DOMAIN last.ret :
               /\ {<<ExtractDirAll(k), m>> :
                       m \in Members(cache[CachePath(k)].content)} \subseteq last.ret[k]
               /\ last.ret[k] \subseteq FilesIn(cache, ExtractDirAll(k))

\* mapping.dict was downloaded and is no key of the result, which holds an
\* extracted archive.
C14_Witness ==
    /\ last.op = "fetch_all"
    /\ \E i \in DownloadEvents : last.ev[i].key = MappingName /\ last.ev[i].ok
    /\ Verifies(cache, MappingName)
    /\ MappingName \notin DOMAIN last.ret
    /\ FirstArchive \in DOMAIN last.ret

(***************************************************************************)
(* SpecRace: two _get_file calls for the same filename running at once,    *)
(* interleaved at the steps that touch the cache file: the check of the    *)
(* existing file, the request, the opening of the target (which truncates  *)
(* it), each chunk written, and the verification after the download.       *)
(* The file is kept chunk by chunk: a chunk is the set holding the content *)
(* id it was written from, or the empty set where nothing was written.     *)
(***************************************************************************)
Calls == {1, 2}

RaceKey == FirstArchive

NoChunks == [i \in 1..MaxChunks |-> {}]
ChunksOf(c) == [i \in 1..MaxChunks |-> {c}]

\* The content id of a file made of these chunks: the id all chunks were
\* written from, and the id of no expected file for an incomplete or mixed
\* file.
ContentOf(chunks) ==
    IF \E c \in Contents : chunks = ChunksOf(c)
    THEN CHOOSE c \in Contents : chunks = ChunksOf(c)
    ELSE EmptyContent

RaceHash == Lookup(registry_dict, RaceKey).hash

\* The call t has ended: returned file_path when err is "none", raised err
\* otherwise.
Ended(t, err) == [running EXCEPT !.pc[t] = "done", !.err[t] = err]

\* Variant: a call waits while another call is downloading the file.
CanEnterExclusive(t) ==
    \A u \in Calls \ {t} : running.pc[u] \notin {"open", "write", "verify"}

\* _get_file takes no lock before self._download_file(url, file_path).
CanEnter(t) == TRUE

\* if filename not in self.registry_dict ... if file_path.exists() and
\* self.check_hash: if self._verify_hash(file_path, file_hash)
RStart(t) ==
    /\ running # NoneRunning
    /\ running.pc[t] = "start"
    /\ running' =
           IF ~InRegistry(registry_dict, RaceKey)
           THEN Ended(t, UnknownResource)
           ELSE IF ~DownloadNeeded(cache, CachePath(RaceKey), check_hash, RaceHash)
           THEN Ended(t, "none")
           ELSE [running EXCEPT !.pc[t] = "request"]
    /\ UNCHANGED <<registry, constructed, registry_dict, check_hash, show_progress,
                   cache, last>>

\* response = http.request(...); if response.status != 200: raise
RRequest(t, out) ==
    /\ running # NoneRunning
    /\ running.pc[t] = "request"
    /\ CanEnter(t)
    /\ running' =
           IF out.net THEN Ended(t, "NetworkError")
           ELSE IF ~StatusAccepted(out.status) THEN Ended(t, "HTTPError")
           ELSE [running EXCEPT !.pc[t] = "open", !.body[t] = out.body,
                                !.cut[t] = out.cut]
    /\ UNCHANGED <<registry, constructed, registry_dict, check_hash, show_progress,
                   cache, last>>

\* with open(target_path, 'wb') as out_file
ROpen(t) ==
    /\ running # NoneRunning
    /\ running.pc[t] = "open"
    /\ cache' = Write(cache, CachePath(RaceKey), FileEntry(EmptyContent))
    /\ running' = [running EXCEPT
                       !.pc[t] = "write", !.pos[t] = 0, !.chunks = NoChunks,
                       !.both = @ \/ \E u \in Calls \ {t} : running.pc[u] = "write"]
    /\ UNCHANGED <<registry, constructed, registry_dict, check_hash, show_progress,
                   last>>

\* data = response.read(8192); out_file.write(data): the call's next chunk
\* goes to the call's own offset.  A broken stream raises after the first
\* chunk.
RWrite(t) ==
    /\ running # NoneRunning
    /\ running.pc[t] = "write"
    /\ LET n == running.pos[t] + 1
           chunks == [running.chunks EXCEPT ![n] = {running.body[t]}]
           written == [running EXCEPT !.chunks = chunks, !.pos[t] = n]
       IN  /\ cache' = Write(cache, CachePath(RaceKey), FileEntry(ContentOf(chunks)))
           /\ running' =
                  IF running.cut[t]
                  THEN [written EXCEPT !.pc[t] = "done", !.err[t] = "ReadError"]
                  ELSE IF n < MaxChunks THEN written
                  ELSE IF check_hash THEN [written EXCEPT !.pc[t] = "verify"]
                  ELSE [written EXCEPT !.pc[t] = "done", !.err[t] = "none"]
    /\ UNCHANGED <<registry, constructed, registry_dict, check_hash, show_progress,
                   last>>

\* if self.check_hash and not self._verify_hash(file_path, file_hash): raise
RVerify(t) ==
    /\ running # NoneRunning
    /\ running.pc[t] = "verify"
    /\ running' =
           IF MismatchRaises(cache, CachePath(RaceKey), check_hash, RaceHash)
           THEN Ended(t, "ValueError")
           ELSE Ended(t, "none")
    /\ UNCHANGED <<registry, constructed, registry_dict, check_hash, show_progress,
                   cache, last>>

\* The next step of call t.
RStep(t) ==
    \/ RStart(t)
    \/ \E out \in Outcomes : RRequest(t, out)
    \/ ROpen(t)
    \/ RWrite(t)
    \/ RVerify(t)

RaceCaches == {<<>>} \cup {(CachePath(RaceKey) :> FileEntry(c)) : c \in Contents}

InitRace ==
    /\ registry \in Manifests
    /\ constructed = TRUE
    /\ registry_dict = LoadRegistry(registry)
    /\ check_hash \in BOOLEAN
    /\ show_progress = TRUE
    /\ cache \in RaceCaches
    /\ running = [chunks |-> IF Exists(cache, CachePath(RaceKey))
                             THEN ChunksOf(cache[CachePath(RaceKey)].content)
                             ELSE NoChunks,
                  pc |-> [t \in Calls |-> "start"],
                  body |-> [t \in Calls |-> EmptyContent],
                  cut |-> [t \in Calls |-> FALSE],
                  pos |-> [t \in Calls |-> 0],
                  err |-> [t \in Calls |-> "none"],
                  both |-> FALSE]
    /\ last = NoCall

NextRace ==
    \/ \E t \in Calls : RStart(t)
    \/ \E t \in Calls : \E out \in Outcomes : RRequest(t, out)
    \/ \E t \in Calls : ROpen(t)
    \/ \E t \in Calls : RWrite(t)
    \/ \E t \in Calls : RVerify(t)

SpecRace == InitRace /\ [][NextRace]_vars

\* C18: no call ever waits for the other: in every state reached by two
\* _get_file calls for the same filename, each call that has not ended can
\* take its next step, whatever the other call is doing to the file.
C18_CallsNeverWait ==
    \A t \in Calls : running.pc[t] # "done" => ENABLED RStep(t)

\* Both calls have had the target open for writing at once, and one call
\* has returned the path as verified while the other is writing the file,
\* which does not have the expected digest.
C18_Witness ==
    /\ check_hash /\ InRegistry(registry_dict, RaceKey)
    /\ running.both
    /\ \E t \in Calls, u \in Calls :
           /\ t # u
           /\ running.pc[t] = "done" /\ running.err[t] = "none"
           /\ running.pc[u] = "write"
    /\ ~Verifies(cache, RaceKey)

====
